---- MODULE Spec2Model ----
(***************************************************************************)
(* MRI-EM-Threshold: the sweep of induced voltage, E-field, current        *)
(* density and power density over dB/dt, in its two scripts                *)
(*   i-o_internal_voltage.py  (prompts for max dB/dt and B_max)            *)
(*   internal_voltage.py      (fixed increment)                            *)
(*                                                                         *)
(* Python floats are modelled as binary floating point numbers with Prec   *)
(* bits of precision, round-to-nearest-even, gradual underflow, overflow   *)
(* to infinity, and NaN: the layout of IEEE-754 binary64 with a shorter    *)
(* significand and exponent.                                               *)
(***************************************************************************)
EXTENDS Integers, Sequences, FiniteSets, TLC

\* ------------------------------------------------------------- bounds
\* bits of the significand (binary64: 53)
Prec == 11
\* quantum exponents run over -ExpRange .. ExpRange - Prec (binary64: -1074 .. 971)
ExpRange == 30
\* iterations of the sweep are 0 .. NUM_STEPS (the scripts fix 1000 and 100)
NUM_STEPS == 10

\* ------------------------------------------------------------- floats
RECURSIVE Pow2(_)
Pow2(n) == IF n <= 0 THEN 1 ELSE 2 * Pow2(n - 1)

EMin == 0 - ExpRange
EMax == ExpRange - Prec

\* number of bits of n > 0
BitLen(n) == CHOOSE k \in 1..30 : Pow2(k - 1) <= n /\ n < Pow2(k)

\* A float is [cls, m, e]: the value m * 2^e of class "fin", with
\* 2^(Prec-1) <= |m| < 2^Prec and EMin <= e <= EMax (normal), or
\* |m| < 2^(Prec-1) and e = EMin (subnormal and zero); "inf" carries the
\* sign in m and sorts above every finite value; "nan" is unordered.
\* "none" is the value of a local variable that is not bound yet.
Float == [cls : {"fin", "inf", "nan", "none"}, m : Int, e : Int]
Zero == [cls |-> "fin", m |-> 0, e |-> EMin]
NaN == [cls |-> "nan", m |-> 0, e |-> 0]
Inf(s) == [cls |-> "inf", m |-> s * Pow2(Prec - 1), e |-> EMax + 1]
None == [cls |-> "none", m |-> 0, e |-> 0]

Sign(x) == IF x.m < 0 THEN 0 - 1 ELSE 1
Mag(n) == IF n < 0 THEN 0 - n ELSE n

\* The arithmetic is written as functions: an argument is evaluated once,
\* where it is applied.

\* m0 (of n bits) shifted right by k > 0 bits, rounded to nearest, ties to even
ShiftRound[m0 \in Int, k \in Int] ==
    LET q == m0 \div Pow2(k)
        r == m0 % Pow2(k)
    IN IF r > Pow2(k - 1) \/ (r = Pow2(k - 1) /\ q % 2 = 1) THEN q + 1 ELSE q

\* s * m0 * 2^e0 (m0 >= 0) rounded once, to the quantum 2^te
PackAt[s \in Int, m0 \in Int, e0 \in Int, n \in Int, te \in Int] ==
    IF te <= e0
    THEN IF te > EMax THEN Inf(s)
         ELSE [cls |-> "fin", m |-> s * m0 * Pow2(e0 - te), e |-> te]
    ELSE IF te - e0 > n + 1 THEN Zero
    ELSE LET q1 == ShiftRound[m0, te - e0]
         IN IF q1 = 0 THEN Zero
            ELSE IF q1 = Pow2(Prec)
                 THEN IF te + 1 > EMax THEN Inf(s)
                      ELSE [cls |-> "fin", m |-> s * Pow2(Prec - 1), e |-> te + 1]
            ELSE IF te > EMax THEN Inf(s)
            ELSE [cls |-> "fin", m |-> s * q1, e |-> te]

\* the quantum exponent of a value of n bits at exponent e0
Quantum(n, e0) == IF e0 + (n - Prec) < EMin THEN EMin ELSE e0 + (n - Prec)

\* s * m0 * 2^e0 (m0 >= 0) as a float
Pack[s \in Int, m0 \in Int, e0 \in Int] ==
    IF m0 = 0 THEN Zero
    ELSE PackAt[s, m0, e0, BitLen(m0), Quantum(BitLen(m0), e0)]

\* int -> float
FromInt(n) == Pack[IF n < 0 THEN 0 - 1 ELSE 1, Mag(n), 0]

\* x * y
Mul[x \in Float, y \in Float] ==
    IF x.cls = "nan" \/ y.cls = "nan" THEN NaN
    ELSE IF x.cls = "inf" \/ y.cls = "inf"
         THEN IF x.m = 0 \/ y.m = 0 THEN NaN ELSE Inf(Sign(x) * Sign(y))
    ELSE Pack[Sign(x) * Sign(y), Mag(x.m) * Mag(y.m), x.e + y.e]

\* the significand of a finite non-zero x shifted up to Prec bits, and its exponent
NormM(x) == Mag(x.m) * Pow2(Prec - BitLen(Mag(x.m)))
NormE(x) == x.e - (Prec - BitLen(Mag(x.m)))

\* num / den to Prec + 3 bits, the last one sticky
Quotient[num \in Int, den \in Int] ==
    2 * (num \div den) + (IF num % den = 0 THEN 0 ELSE 1)

\* x / y for y # 0 (the scripts divide by NUM_STEPS and by 2 only)
Div[x \in Float, y \in Float] ==
    IF x.cls = "nan" \/ y.cls = "nan" THEN NaN
    ELSE IF x.cls = "inf" THEN IF y.cls = "inf" THEN NaN ELSE Inf(Sign(x) * Sign(y))
    ELSE IF y.cls = "inf" \/ x.m = 0 THEN Zero
    ELSE Pack[Sign(x) * Sign(y),
              Quotient[NormM(x) * Pow2(Prec + 2), NormM(y)],
              NormE(x) - NormE(y) - (Prec + 2) - 1]

\* abs(x)
Abs[x \in Float] == IF x.cls = "nan" THEN NaN ELSE [x EXCEPT !.m = Mag(x.m)]

\* x < y, x <= y, x == y; every comparison with nan is False
Lt[x \in Float, y \in Float] ==
    /\ x.cls # "nan" /\ y.cls # "nan"
    /\ \/ x.m < 0 /\ y.m >= 0
       \/ x.m >= 0 /\ y.m >= 0 /\ (x.e < y.e \/ (x.e = y.e /\ x.m < y.m))
       \/ x.m < 0 /\ y.m < 0 /\ (x.e > y.e \/ (x.e = y.e /\ x.m < y.m))
Eq[x \in Float, y \in Float] == x.cls # "nan" /\ y.cls # "nan" /\ x = y
Le[x \in Float, y \in Float] == Lt[x, y] \/ Eq[x, y]

\* max(x, y) of Python: the first argument unless the second is greater
Max2[x \in Float, y \in Float] == IF Lt[x, y] THEN y ELSE x

\* a decimal literal n/d with |n|, d < 2^Prec, or d = 1, or n small and d a power of two
Dec(n, d) == Div[FromInt(n), FromInt(d)]

Finite(x) == x.cls = "fin"
\* zero, or finite with a full significand
Normal(x) == x.cls = "fin" /\ (x.m = 0 \/ Mag(x.m) >= Pow2(Prec - 1))

\* ------------------------------------------------------------- constants
head_a == Dec(9, 100)
head_b == Dec(9, 100)
head_c == Dec(65, 1000)
\* math.pi: the float nearest to pi (355/113 rounds as pi does at these precisions)
math_pi == Dec(355, 113)
sigma_brain == Dec(33, 100)
\* internal_voltage.py
B_MAX == FromInt(7)
B_ROC_INCREMENT == Dec(5, 100)

\* ------------------------------------------------------------- physics
\* mutant: the cross-section taken in the a-b plane
calculate_induced_voltage_ab(dB_dt, a, b, c) ==
    LET A_max == Mul[Mul[math_pi, a], b]
        V_induced == Mul[Abs[dB_dt], A_max]
    IN V_induced

calculate_induced_voltage(dB_dt, a, b, c) ==
    LET A_max == Mul[Mul[math_pi, a], c]
        V_induced == Mul[Abs[dB_dt], A_max]
    IN V_induced

calculate_max_electric_field(dB_dt, a, c) ==
    LET r_max == Max2[a, c]
        E_max == Mul[Div[r_max, FromInt(2)], Abs[dB_dt]]
    IN E_max

\* ------------------------------------------------------------- the sweep
\* mutant: the sweep run from the maximum down
B_ROC_descending(i, increment) == Mul[FromInt(NUM_STEPS - i), increment]

\* dB/dt of iteration i
B_ROC_of(i, increment) == Mul[FromInt(i), increment]

\* mutant: the square dropped
PowerDensity_linear(E_max) == Mul[sigma_brain, E_max]

PowerDensity(E_max) == Mul[sigma_brain, Mul[E_max, E_max]]

\* mutant: Step counted from 1
Row_step_from_one(script, i, increment) ==
    LET B_ROC == B_ROC_of(i, increment)
        V_INT == calculate_induced_voltage(B_ROC, head_a, head_b, head_c)
        E_max == calculate_max_electric_field(B_ROC, head_a, head_c)
        J_max == Mul[sigma_brain, E_max]
        physical == [dB_dt |-> B_ROC,
                     Induced_Voltage |-> V_INT,
                     Max_E_field |-> E_max,
                     Max_Current_Density |-> J_max,
                     Power_Density |-> PowerDensity(E_max)]
    IN IF script = "io" THEN [Step |-> i + 1] @@ physical ELSE physical

\* the row appended by iteration i; only the i-o script writes the Step column
Row(script, i, increment) ==
    LET B_ROC == B_ROC_of(i, increment)
        V_INT == calculate_induced_voltage(B_ROC, head_a, head_b, head_c)
        E_max == calculate_max_electric_field(B_ROC, head_a, head_c)
        J_max == Mul[sigma_brain, E_max]
        physical == [dB_dt |-> B_ROC,
                     Induced_Voltage |-> V_INT,
                     Max_E_field |-> E_max,
                     Max_Current_Density |-> J_max,
                     Power_Density |-> PowerDensity(E_max)]
    IN IF script = "io" THEN [Step |-> i] @@ physical ELSE physical

\* mutant: the upper bound of the first band exclusive
ClassifyBioeffect_exclusive(E_max) ==
    IF Le[Dec(1, 10), E_max] /\ Lt[E_max, FromInt(1)]
    THEN <<"Subtle Neuromodulation">>
    ELSE IF Lt[FromInt(1), E_max] /\ Le[E_max, FromInt(10)]
    THEN <<"***PERIPHERAL NERVE STIMULATION***">>
         \o (IF Lt[FromInt(1), E_max] /\ Le[E_max, Dec(58, 10)]
             THEN <<"!!! Sensory Perception - tingling !!!">> ELSE <<>>)
         \o (IF Lt[Dec(58, 10), E_max] /\ Le[E_max, FromInt(10)]
             THEN <<"!!! Sensory Perception - PAINFUL !!!">> ELSE <<>>)
    ELSE <<>>

\* the advisory lines printed for the E_max left by the last iteration
ClassifyBioeffect(E_max) ==
    IF Le[Dec(1, 10), E_max] /\ Le[E_max, FromInt(1)]
    THEN <<"Subtle Neuromodulation">>
    ELSE IF Lt[FromInt(1), E_max] /\ Le[E_max, FromInt(10)]
    THEN <<"***PERIPHERAL NERVE STIMULATION***">>
         \o (IF Lt[FromInt(1), E_max] /\ Le[E_max, Dec(58, 10)]
             THEN <<"!!! Sensory Perception - tingling !!!">> ELSE <<>>)
         \o (IF Lt[Dec(58, 10), E_max] /\ Le[E_max, FromInt(10)]
             THEN <<"!!! Sensory Perception - PAINFUL !!!">> ELSE <<>>)
    ELSE <<>>

HighFieldCaution(B_max) ==
    IF Eq[B_max, FromInt(7)] THEN <<"***Caution! High Field***">> ELSE <<>>

\* the greater of x and rest, NaN skipped
SkipNaMax[x \in Float, rest \in Float] ==
    IF x.cls = "nan" THEN rest
    ELSE IF rest.cls = "nan" THEN x
    ELSE IF Lt[x, rest] THEN rest ELSE x

\* Series.max() of pandas: the greatest value that is not NaN, NaN if there is none
SeriesMax[s \in Seq(Float)] ==
    IF s = <<>> THEN NaN ELSE SkipNaMax[Head(s), SeriesMax[Tail(s)]]

Column(results, name) == [k \in 1..Len(results) |-> results[k][name]]

Summary(results) ==
    [dB_dt |-> SeriesMax[Column(results, "dB_dt")],
     Induced_Voltage |-> SeriesMax[Column(results, "Induced_Voltage")],
     Max_E_field |-> SeriesMax[Column(results, "Max_E_field")],
     Max_Current_Density |-> SeriesMax[Column(results, "Max_Current_Density")]]

NoSummary == [dB_dt |-> None, Induced_Voltage |-> None, Max_E_field |-> None,
              Max_Current_Density |-> None]

\* the frame of one run of the sweep: run_simulation of the i-o script, the
\* body of main of the fixed script
Frame(script, max, B, increment) ==
    [script |-> script, pc |-> "loop", max_dB_dt |-> max, B_max |-> B,
     dB_dt_increment |-> increment, i |-> 0, results |-> <<>>, E_max |-> None,
     out |-> <<>>, summary |-> NoSummary]

NoFrame == [Frame("none", None, None, None) EXCEPT !.pc = "idle"]

\* mutant: the increment taken from B_max
run_simulation_from_B(max_dB_dt, B_max) ==
    Frame("io", max_dB_dt, B_max, Div[B_max, FromInt(NUM_STEPS)])

\* run_simulation(max_dB_dt, B_max) up to the loop: no check of its arguments
run_simulation(max_dB_dt, B_max) ==
    Frame("io", max_dB_dt, B_max, Div[max_dB_dt, FromInt(NUM_STEPS)])

\* main of internal_voltage.py up to the loop
fixed_main == Frame("fixed", None, B_MAX, B_ROC_INCREMENT)

\* one iteration of  for i in range(NUM_STEPS + 1)
LoopBody(f) ==
    LET row == Row(f.script, f.i, f.dB_dt_increment)
    IN [f EXCEPT !.results = Append(f.results, row),
                 !.E_max = row.Max_E_field,
                 !.i = f.i + 1]

\* after the loop: the advisories (i-o script only), the summary, return df
AfterLoop(f) ==
    [f EXCEPT !.out = IF f.script = "io"
                      THEN HighFieldCaution(f.B_max) \o ClassifyBioeffect(f.E_max)
                      ELSE <<>>,
              !.summary = Summary(f.results),
              !.pc = "returned"]

SimStep(f) == IF f.i <= NUM_STEPS THEN LoopBody(f) ELSE AfterLoop(f)

\* ------------------------------------------------------------- user input
\* what the user types at a prompt: text that float() refuses, "nan", "inf",
\* "-inf", or a decimal n/d
Text == [k |-> "text", n |-> 0, d |-> 1]
Typed(k) == [k |-> k, n |-> 0, d |-> 1]
Decimal(n, d) == [k |-> "dec", n |-> n, d |-> d]

\* float(input(...)): ok = FALSE is ValueError
ParseFloat(entry) ==
    CASE entry.k = "text" -> [ok |-> FALSE, val |-> None]
      [] entry.k = "nan" -> [ok |-> TRUE, val |-> NaN]
      [] entry.k = "inf" -> [ok |-> TRUE, val |-> Inf(1)]
      [] entry.k = "-inf" -> [ok |-> TRUE, val |-> Inf(0 - 1)]
      [] OTHER -> [ok |-> TRUE, val |-> Dec(entry.n, entry.d)]

\* mutant: zero let through
Rejected_below_zero(value) == Lt[value, Zero]

\* the test of both prompts:  if max_dB_dt <= 0  /  if B_max <= 0
Rejected(value) == Le[value, Zero]

\* entries tried at the dB/dt prompt: rejected ones, one per bioeffect band,
\* one whose last step misses the maximum (3.1), a tiny and a huge one
DBdtEntries ==
    {Text, Typed("nan"), Typed("inf"), Typed("-inf"),
     Decimal(0, 1), Decimal(0 - 5, 1),
     Decimal(1, 1), Decimal(31, 10), Decimal(5, 1), Decimal(20, 1), Decimal(100, 1),
     Decimal(200, 1), Decimal(250, 1), Decimal(3, Pow2(29)), Decimal(600000000, 1)}
BEntries ==
    {Text, Typed("nan"), Decimal(0, 1), Decimal(0 - 1, 1),
     Decimal(15, 10), Decimal(3, 1), Decimal(7, 1)}
\* answers at the save prompt of the fixed script
Answers == {"yes", "Y", "no", ""}
Lower(a) == IF a = "Y" THEN "y" ELSE a

\* ------------------------------------------------------------- state
VARIABLES
    script,     \* "io" (i-o_internal_voltage.py) or "fixed" (internal_voltage.py)
    caller,     \* "main", or "call" when run_simulation is called directly
    pc,         \* position of main / get_user_input
    console,    \* the last error line printed by get_user_input
    max_dB_dt,  \* local of get_user_input, then of main
    B_max,      \* local of get_user_input, then of main
    sim,        \* the frame of the sweep
    csv,        \* the file written: its name and its rows
    sim2,       \* a second run of run_simulation, for two-run comparisons
    fn          \* a call of one function on its own

vars == <<script, caller, pc, console, max_dB_dt, B_max, sim, csv, sim2, fn>>

NoFile == [name |-> <<>>, rows |-> <<>>]
NoCall == [op |-> "none"]

\* arguments of a direct call of run_simulation
CallArgs == {ParseFloat(en).val : en \in DBdtEntries \ {Text}}
CallB == {FromInt(3), FromInt(7)}

Init ==
    /\ console = "" /\ csv = NoFile /\ sim2 = NoFrame /\ fn = NoCall
    /\ \/ /\ script = "io" /\ caller = "main" /\ pc = "input_dBdt"
          /\ max_dB_dt = None /\ B_max = None /\ sim = NoFrame
       \/ /\ script = "io" /\ caller = "call" /\ pc = "run_simulation"
          /\ max_dB_dt \in CallArgs /\ B_max \in CallB /\ sim = NoFrame
       \/ /\ script = "fixed" /\ caller = "main" /\ pc = "in_simulation"
          /\ max_dB_dt = None /\ B_max = None /\ sim = fixed_main

\* get_user_input, first loop: one pass
ReadMaxDBdt ==
    /\ pc = "input_dBdt"
    /\ \E entry \in DBdtEntries :
         LET r == ParseFloat(entry)
         IN IF ~r.ok
            THEN /\ console' = "Error: Please enter a valid number."
                 /\ UNCHANGED <<max_dB_dt, pc>>
            ELSE /\ max_dB_dt' = r.val
                 /\ IF Rejected(r.val)
                    THEN /\ console' = "Error: dB/dt must be positive. Please try again."
                         /\ pc' = pc
                    ELSE /\ console' = console
                         /\ pc' = "input_B"
    /\ UNCHANGED <<script, caller, B_max, sim, csv, sim2, fn>>

\* get_user_input, second loop: one pass; on success it returns to main
ReadBMax ==
    /\ pc = "input_B"
    /\ \E entry \in BEntries :
         LET r == ParseFloat(entry)
         IN IF ~r.ok
            THEN /\ console' = "Error: Please enter a valid number."
                 /\ UNCHANGED <<B_max, pc>>
            ELSE /\ B_max' = r.val
                 /\ IF Rejected(r.val)
                    THEN /\ console' = "Error: B_max must be positive. Please try again."
                         /\ pc' = pc
                    ELSE /\ console' = console
                         /\ pc' = "run_simulation"
    /\ UNCHANGED <<script, caller, max_dB_dt, sim, csv, sim2, fn>>

\* df = run_simulation(max_dB_dt, B_max): entry
RunSimulation ==
    /\ pc = "run_simulation"
    /\ sim' = run_simulation(max_dB_dt, B_max)
    /\ pc' = "in_simulation"
    /\ UNCHANGED <<script, caller, console, max_dB_dt, B_max, csv, sim2, fn>>

\* one iteration of the sweep, or what follows the loop
Sweep ==
    /\ pc = "in_simulation"
    /\ sim.pc = "loop"
    /\ sim' = SimStep(sim)
    /\ UNCHANGED <<script, caller, pc, console, max_dB_dt, B_max, csv, sim2, fn>>

\* save_to_csv(df, max_dB_dt, B_max), called by main of the i-o script
SaveToCsv ==
    /\ pc = "in_simulation" /\ sim.pc = "returned"
    /\ script = "io" /\ caller = "main"
    /\ csv' = [name |-> <<"mri_results_dBdt_", max_dB_dt, "Ts_Bmax_", B_max, "T.csv">>,
               rows |-> sim.results]
    /\ pc' = "done"
    /\ UNCHANGED <<script, caller, console, max_dB_dt, B_max, sim, sim2, fn>>

\* the save prompt of the fixed script
SaveOption ==
    /\ pc = "in_simulation" /\ sim.pc = "returned"
    /\ script = "fixed"
    /\ \E save_option \in Answers :
         csv' = IF Lower(save_option) \in {"yes", "y"}
                THEN [name |-> <<"mri_induced_voltage_results.csv">>, rows |-> sim.results]
                ELSE csv
    /\ pc' = "done"
    /\ UNCHANGED <<script, caller, console, max_dB_dt, B_max, sim, sim2, fn>>

Next ==
    \/ ReadMaxDBdt
    \/ ReadBMax
    \/ RunSimulation
    \/ Sweep
    \/ SaveToCsv
    \/ SaveOption

Spec == Init /\ [][Next]_vars

\* ------------------------------------------------------------- two runs
\* Two calls of run_simulation side by side, stepped together: the second
\* with the same or the doubled max_dB_dt, each with its own B_max.
PairB == {Dec(15, 10), FromInt(3), FromInt(7)}

InitPair ==
    /\ script = "io" /\ caller = "call" /\ pc = "in_simulation"
    /\ console = "" /\ csv = NoFile /\ fn = NoCall
    /\ max_dB_dt = None /\ B_max = None
    /\ \E x \in CallArgs, b1 \in PairB, b2 \in PairB :
         \E y \in {x, Mul[FromInt(2), x]} :
            /\ sim = run_simulation(x, b1)
            /\ sim2 = run_simulation(y, b2)

SweepPair ==
    /\ pc = "in_simulation"
    /\ sim.pc = "loop" /\ sim2.pc = "loop"
    /\ sim' = SimStep(sim)
    /\ sim2' = SimStep(sim2)
    /\ UNCHANGED <<script, caller, pc, console, max_dB_dt, B_max, csv, fn>>

NextPair == SweepPair

SpecPair == InitPair /\ [][NextPair]_vars

\* ------------------------------------------------------------- one function
\* calculate_induced_voltage applied to two argument lists that share a and c,
\* and the advisory block applied to two values of E_max.
Geometry_a == {head_a, Dec(1, 10)}
Geometry_b == {head_b, Dec(2, 10), FromInt(5)}
Geometry_c == {head_c, Dec(12, 100)}
Rates == {Zero, Dec(3, Pow2(29)), FromInt(1), Dec(31, 10), FromInt(100),
          FromInt(600000000), Inf(1)}

\* the floats next to x > 0
Succ(x) == IF x.m + 1 = Pow2(Prec) THEN [x EXCEPT !.m = Pow2(Prec - 1), !.e = x.e + 1]
           ELSE [x EXCEPT !.m = x.m + 1]
Pred(x) == IF x.m = Pow2(Prec - 1) THEN [x EXCEPT !.m = Pow2(Prec) - 1, !.e = x.e - 1]
           ELSE [x EXCEPT !.m = x.m - 1]

Thresholds == {Dec(1, 10), FromInt(1), Dec(58, 10), FromInt(10)}
Fields ==
    Thresholds \cup {Succ(t) : t \in Thresholds} \cup {Pred(t) : t \in Thresholds}
    \cup {Zero, Dec(5, 10), FromInt(3), FromInt(8), FromInt(50), Inf(1), NaN}

InitFn ==
    /\ script = "io" /\ caller = "call" /\ pc = "function"
    /\ console = "" /\ csv = NoFile /\ sim = NoFrame /\ sim2 = NoFrame
    /\ max_dB_dt = None /\ B_max = None
    /\ \/ \E d1 \in Rates, d2 \in Rates, a \in Geometry_a, c \in Geometry_c :
            \E b1 \in Geometry_b, b2 \in Geometry_b :
               fn = [op |-> "calculate_induced_voltage", done |-> FALSE,
                     dB_dt1 |-> d1, dB_dt2 |-> d2, a |-> a, b1 |-> b1, b2 |-> b2, c |-> c,
                     V1 |-> None, V2 |-> None]
       \/ \E e1 \in Fields, e2 \in Fields :
            fn = [op |-> "classify", done |-> FALSE, E_max1 |-> e1, E_max2 |-> e2,
                  out1 |-> <<>>, out2 |-> <<>>]

CallInducedVoltage ==
    /\ fn.op = "calculate_induced_voltage" /\ ~fn.done
    /\ fn' = [fn EXCEPT !.V1 = calculate_induced_voltage(fn.dB_dt1, fn.a, fn.b1, fn.c),
                        !.V2 = calculate_induced_voltage(fn.dB_dt2, fn.a, fn.b2, fn.c),
                        !.done = TRUE]
    /\ UNCHANGED <<script, caller, pc, console, max_dB_dt, B_max, sim, csv, sim2>>

CallClassify ==
    /\ fn.op = "classify" /\ ~fn.done
    /\ fn' = [fn EXCEPT !.out1 = ClassifyBioeffect(fn.E_max1),
                        !.out2 = ClassifyBioeffect(fn.E_max2),
                        !.done = TRUE]
    /\ UNCHANGED <<script, caller, pc, console, max_dB_dt, B_max, sim, csv, sim2>>

NextFn ==
    \/ CallInducedVoltage
    \/ CallClassify

SpecFn == InitFn /\ [][NextFn]_vars

\* ------------------------------------------------------------- claims
Returned == sim.pc = "returned"
IoRun == sim.script = "io" /\ sim.pc # "idle"
IoDone == sim.script = "io" /\ sim.pc = "returned"
Rows == 1..Len(sim.results)
PhysicalColumns ==
    {"dB_dt", "Induced_Voltage", "Max_E_field", "Max_Current_Density", "Power_Density"}

\* the sweep stays in the range where no value overflows or underflows
Benign(f) ==
    /\ Finite(f.max_dB_dt)
    /\ Normal(f.dB_dt_increment) /\ f.dB_dt_increment # Zero

\* C1: a sweep with max_dB_dt > 0 returns NUM_STEPS + 1 records whose dB/dt is
\* i * (max_dB_dt / NUM_STEPS): 0 at step 0, max_dB_dt at step NUM_STEPS,
\* strictly increasing in the step. Stated for the runs of main whose
\* max_dB_dt is finite and whose increment is a normal float.
C1_ArithmeticProgression ==
    (IoDone /\ caller = "main" /\ Lt[Zero, sim.max_dB_dt] /\ Benign(sim)) =>
        /\ Len(sim.results) = NUM_STEPS + 1
        /\ \A k \in Rows :
             sim.results[k].dB_dt
               = Mul[FromInt(k - 1), Div[sim.max_dB_dt, FromInt(NUM_STEPS)]]
        /\ Eq[sim.results[1].dB_dt, Zero]
        /\ Eq[sim.results[NUM_STEPS + 1].dB_dt, sim.max_dB_dt]
        /\ \A k \in Rows \ {1} : Lt[sim.results[k - 1].dB_dt, sim.results[k].dB_dt]

\* what does hold of the same runs: the count, the formula, the start at 0 and
\* the strict increase; only the last value may miss max_dB_dt
SweepShape ==
    (IoDone /\ Lt[Zero, sim.max_dB_dt] /\ Benign(sim)) =>
        /\ Len(sim.results) = NUM_STEPS + 1
        /\ \A k \in Rows :
             sim.results[k].dB_dt
               = Mul[FromInt(k - 1), Div[sim.max_dB_dt, FromInt(NUM_STEPS)]]
        /\ Eq[sim.results[1].dB_dt, Zero]
        /\ \A k \in Rows \ {1} : Lt[sim.results[k - 1].dB_dt, sim.results[k].dB_dt]

\* C2 as stated: a sweep whose max_dB_dt is <= 0 never appends a record.
C2_SweepRejects ==
    (IoRun /\ Le[sim.max_dB_dt, Zero]) => sim.results = <<>>

\* C2 as amended: from main the sweep is entered only with the values that
\* get_user_input accepted, neither of them <= 0; run_simulation itself checks
\* nothing, and called directly it returns all NUM_STEPS + 1 records.
C2_MainValidates ==
    /\ (IoRun /\ caller = "main") =>
          /\ sim.max_dB_dt = max_dB_dt /\ sim.B_max = B_max
          /\ ~Le[max_dB_dt, Zero] /\ ~Le[B_max, Zero]
    /\ (caller = "main" /\ pc = "input_dBdt") => sim = NoFrame
    /\ (caller = "main" /\ pc = "input_B") => (sim = NoFrame /\ ~Le[max_dB_dt, Zero])
    /\ (IoDone /\ caller = "call") => Len(sim.results) = NUM_STEPS + 1

\* a run of main that refused an entry at the first prompt and then swept
C2_Witness ==
    /\ IoDone /\ caller = "main"
    /\ console = "Error: dB/dt must be positive. Please try again."
    /\ Len(sim.results) = NUM_STEPS + 1

\* ---- C3, under SpecFn
Subtle == <<"Subtle Neuromodulation">>
Tingling == <<"***PERIPHERAL NERVE STIMULATION***", "!!! Sensory Perception - tingling !!!">>
Painful == <<"***PERIPHERAL NERVE STIMULATION***", "!!! Sensory Perception - PAINFUL !!!">>
Classified == fn.op = "classify" /\ fn.done

\* the level of the claim's table for a value E and the lines out printed for it
LevelOf(E, out) ==
    /\ (Le[Dec(1, 10), E] /\ Le[E, FromInt(1)]) => out = Subtle
    /\ (Lt[FromInt(1), E] /\ Le[E, Dec(58, 10)]) => out = Tingling
    /\ (Lt[Dec(58, 10), E] /\ Le[E, FromInt(10)]) => out = Painful

\* C3 as stated: the three bands with inclusive upper bounds, and the outcome
\* below 0.1 differs from the outcome above 10.
C3_Levels ==
    Classified =>
        /\ LevelOf(fn.E_max1, fn.out1)
        /\ LevelOf(fn.E_max2, fn.out2)
        /\ (Lt[fn.E_max1, Dec(1, 10)] /\ Lt[FromInt(10), fn.E_max2]) => fn.out1 # fn.out2

\* C3 as amended: the three bands as stated; every other E_max (below 0.1,
\* above 10, NaN) prints nothing, so below 0.1 and above 10 look the same.
C3_LevelsOrNothing ==
    Classified =>
        /\ LevelOf(fn.E_max1, fn.out1)
        /\ LevelOf(fn.E_max2, fn.out2)
        /\ ~(Le[Dec(1, 10), fn.E_max1] /\ Le[fn.E_max1, FromInt(10)]) => fn.out1 = <<>>
        /\ ~(Le[Dec(1, 10), fn.E_max2] /\ Le[fn.E_max2, FromInt(10)]) => fn.out2 = <<>>
        /\ fn.out1 \in {Subtle, Tingling, Painful, <<>>}

\* the bounds 1 and 5.8 themselves, each in the lower band
C3_Witness ==
    /\ Classified
    /\ fn.E_max1 = FromInt(1) /\ fn.out1 = Subtle
    /\ fn.E_max2 = Dec(58, 10) /\ fn.out2 = Tingling

\* C4: in a run with max_dB_dt > 0 the E_max left by the last iteration is the
\* maximum of the Max E-field column, and both classify alike.
C4_LastIsMax ==
    (IoDone /\ Lt[Zero, sim.max_dB_dt]) =>
        /\ sim.E_max = sim.summary.Max_E_field
        /\ sim.E_max = sim.results[NUM_STEPS + 1].Max_E_field
        /\ \A k \in Rows : ~Lt[sim.E_max, sim.results[k].Max_E_field]
        /\ ClassifyBioeffect(sim.E_max) = ClassifyBioeffect(sim.summary.Max_E_field)

\* a finished run whose field rose above zero and was classified
C4_Witness ==
    /\ IoDone /\ caller = "main" /\ Lt[Zero, sim.max_dB_dt]
    /\ Lt[sim.results[1].Max_E_field, sim.E_max]
    /\ sim.out = Tingling

\* ---- C5 and C8, under SpecPair
Paired == sim.script = "io" /\ sim2.script = "io"
BothDone == Paired /\ sim.pc = "returned" /\ sim2.pc = "returned"
Doubled == sim2.max_dB_dt = Mul[FromInt(2), sim.max_dB_dt]
SameRate == sim2.max_dB_dt = sim.max_dB_dt

\* record r2 is record r1 with dB/dt, voltage and E-field doubled, power quadrupled
Scaled(r1, r2) ==
    /\ r2.dB_dt = Mul[FromInt(2), r1.dB_dt]
    /\ r2.Induced_Voltage = Mul[FromInt(2), r1.Induced_Voltage]
    /\ r2.Max_E_field = Mul[FromInt(2), r1.Max_E_field]
    /\ r2.Power_Density = Mul[FromInt(4), r1.Power_Density]

NormalRow(r) ==
    /\ Normal(r.dB_dt) /\ Normal(r.Induced_Voltage)
    /\ Normal(r.Max_E_field) /\ Normal(r.Power_Density)

VoltageCalled == fn.op = "calculate_induced_voltage" /\ fn.done

\* C6: for dB_dt >= 0, calculate_induced_voltage does not decrease when |dB_dt|
\* grows, whatever b is, and two calls that differ only in b agree.
C6_MonotoneWhateverB ==
    (VoltageCalled /\ Le[Zero, fn.dB_dt1] /\ Le[Zero, fn.dB_dt2]) =>
        /\ Le[Abs[fn.dB_dt1], Abs[fn.dB_dt2]] => Le[fn.V1, fn.V2]
        /\ fn.dB_dt1 = fn.dB_dt2 => fn.V1 = fn.V2
        /\ Le[Zero, fn.V1]

\* two calls with different b: equal rates give equal, non-zero voltages
C6_Witness ==
    /\ VoltageCalled
    /\ fn.b1 # fn.b2
    /\ fn.dB_dt1 = FromInt(100) /\ fn.dB_dt2 = FromInt(100)
    /\ fn.V1 = fn.V2 /\ Lt[Zero, fn.V1]

\* ---- C7
\* C7 as stated: in both scripts every row has Step and the five physical
\* columns, and the k-th row (from 0) has Step = k.
C7_StepColumn ==
    \A k \in Rows :
        /\ DOMAIN sim.results[k] = PhysicalColumns \cup {"Step"}
        /\ sim.results[k].Step = k - 1

\* C7 as amended: that holds of the i-o script; the rows of the fixed script have
\* the five physical columns only, and its k-th row is the one of iteration k.
C7_StepColumnIoOnly ==
    /\ Len(sim.results) = sim.i
    /\ sim.script = "io" =>
         \A k \in Rows :
            /\ DOMAIN sim.results[k] = PhysicalColumns \cup {"Step"}
            /\ sim.results[k].Step = k - 1
    /\ sim.script = "fixed" =>
         \A k \in Rows :
            /\ DOMAIN sim.results[k] = PhysicalColumns
            /\ sim.results[k].dB_dt = Mul[FromInt(k - 1), B_ROC_INCREMENT]
            /\ k > 1 => Lt[sim.results[k - 1].dB_dt, sim.results[k].dB_dt]

\* the fixed script has written its table, the file has it without a Step column
C7_Witness ==
    /\ script = "fixed" /\ pc = "done"
    /\ Len(csv.rows) = NUM_STEPS + 1
    /\ "Step" \notin DOMAIN csv.rows[NUM_STEPS + 1]

\* ---- C8, under SpecPair
Caution == "***Caution! High Field***"
HasCaution(out) == \E k \in 1..Len(out) : out[k] = Caution
IsAdvice(line) == line # Caution
Advice(out) == SelectSeq(out, IsAdvice)

C9_RecordFormulas ==
    (caller = "main" /\ sim.pc # "idle") =>
        \A k \in Rows :
            LET r == sim.results[k]
                dB == r.dB_dt
                E == Mul[Div[Max2[head_a, head_c], FromInt(2)], Abs[dB]]
            IN /\ r.Induced_Voltage = Mul[Abs[dB], Mul[Mul[math_pi, head_a], head_c]]
               /\ r.Max_E_field = E
               /\ r.Max_Current_Density = Mul[sigma_brain, E]
               /\ r.Power_Density = Mul[sigma_brain, Mul[E, E]]
               /\ Le[Zero, r.Induced_Voltage] /\ Le[Zero, r.Max_E_field]
               /\ Le[Zero, r.Max_Current_Density] /\ Le[Zero, r.Power_Density]
               /\ k = 1 =>
                    /\ Eq[r.Induced_Voltage, Zero] /\ Eq[r.Max_E_field, Zero]
                    /\ Eq[r.Max_Current_Density, Zero] /\ Eq[r.Power_Density, Zero]

\* what does hold: the same of every run of main whose max_dB_dt is finite
RecordFormulasFinite ==
    (sim.script = "io" /\ ~Finite(sim.max_dB_dt)) \/ C9_RecordFormulas

\* C10: get_user_input hands main only values > 0; B_max is not asked for before
\* max_dB_dt is accepted, an accepted max_dB_dt is not changed by what follows,
\* and the sweep is not started before both are accepted.
C10_ValidatedInput ==
    [][ (script = "io" /\ caller = "main") =>
          /\ (pc = "input_dBdt" /\ pc' = "input_B") => Lt[Zero, max_dB_dt']
          /\ (pc = "input_B" /\ pc' = "run_simulation") =>
                (Lt[Zero, max_dB_dt'] /\ Lt[Zero, B_max'])
          /\ pc = "input_dBdt" => (B_max' = None /\ sim' = NoFrame)
          /\ pc = "input_B" => sim' = NoFrame
          /\ pc # "input_dBdt" => max_dB_dt' = max_dB_dt
          /\ pc \notin {"input_dBdt", "input_B"} => B_max' = B_max ]_vars

\* what does hold: the order of the prompts, and nothing <= 0 is accepted
InputOrder ==
    [][ (script = "io" /\ caller = "main") =>
          /\ (pc = "input_dBdt" /\ pc' = "input_B") => ~Le[max_dB_dt', Zero]
          /\ (pc = "input_B" /\ pc' = "run_simulation") =>
                (~Le[max_dB_dt', Zero] /\ ~Le[B_max', Zero])
          /\ pc = "input_dBdt" => (B_max' = None /\ sim' = NoFrame)
          /\ pc = "input_B" => sim' = NoFrame
          /\ pc # "input_dBdt" => max_dB_dt' = max_dB_dt
          /\ pc \notin {"input_dBdt", "input_B"} => B_max' = B_max ]_vars
====
